---- MODULE Spec2Model ----
(***************************************************************************)
(* Model of the persistent WebSocket RPC client of the monitoring backend  *)
(* (monitoring/src/gateway.js, class GatewayClient).                       *)
(*                                                                         *)
(* State: the fields of the singleton GatewayClient, the WebSocket objects *)
(* it has created and that can still deliver events, the timers it has     *)
(* armed, and history variables recording what the last handler did and    *)
(* how often a continuation of each pending entry has been invoked.  One   *)
(* action per public method, socket event handler and timer callback.      *)
(* Time is abstracted: an armed timer may fire at any moment until it is   *)
(* cleared.  The functions that build the device-auth payload and the      *)
(* connect request are operators, applied to bounded sets of arguments by  *)
(* a specification of their own (SpecAuth).  The rule-based alerter        *)
(* (monitoring/src/alerter.js) has its module state, its clock and the     *)
(* evaluate() calls that are suspended at an await as further variables,   *)
(* and specifications of its own (SpecOutage, SpecTailscale, SpecCooldown).*)
(***************************************************************************)
EXTENDS Integers, FiniteSets, Sequences, TLC

\* ---------------------------------------------------------------- bounds
MaxIds == 2          \* correlation ids (randomUUID values) drawn in a run
MaxSockets == 2      \* WebSocket objects that can still deliver events
MaxTicks == 3        \* steps of the alerter's clock
MaxFailures == 4     \* probes of one kind counted in a row by the alerter
MaxInFlight == 2     \* evaluate() calls suspended at an await at one time

\* ------------------------------------------------------ program constants
RECONNECT_BASE_MS == 1000
RECONNECT_MAX_MS == 30000

\* alerter.js
CONSECUTIVE_FAILURES == 3
HIGH_ERROR_THRESHOLD == 10
HIGH_LATENCY_MS == 5000
PROBE_MS == 30000
DEFAULT_COOLDOWN_MS == 900000
LATENCY_SAMPLES == 5
\* the clock: Date.now() when the process starts, and the step by which
\* the model lets it advance
START_MS == 1000000000
TICK_MS == 300000

Ids == 1..MaxIds
Slots == 1..MaxSockets

Min(a, b) == IF a < b THEN a ELSE b

VARIABLES
  urlValid,          \* configuration: new WebSocket(url) accepts the url
  sockets,           \* slot -> [readyState, hsTimer] of a WebSocket object
  ws,                \* this._ws: slot of the current socket, 0 = null
  connected,         \* this._connected
  handshakeComplete, \* this._handshakeComplete
  connectedAt,       \* this._connectedAt is non-null
  serverInfo,        \* this._serverInfo is non-null
  pending,           \* keys of this._pending
  timers,            \* ids whose entry timer is armed
  kindOf,            \* id -> "none" | "call" | "connect": closures of the entry
  nextId,            \* next fresh id (randomUUID never repeats)
  reconnectDelay,    \* this._reconnectDelay
  reconnectTimer,    \* this._reconnectTimer is non-null
  reconnectTimers,   \* number of reconnect timeouts armed in the event loop
  observe,           \* names of the history variables that are recorded
  fired,             \* id -> number of continuation invocations (saturates at 2)
  timedOut,          \* history: ids whose call() timeout has fired
  last,              \* history: what the last handler did
  expectedDelay,     \* history: base delay doubled per reconnect since READY
  disconnected,      \* history: disconnect() called and connect() not since
  emitted,           \* history: the notification the last handler emitted
  received,          \* history: the frame the last onmessage was given
  returned,          \* history: the value the last call of a function returned
  carried,           \* history: the argument of the notification emitted
  request,           \* history: the frame the last handler passed to _send
  written,           \* history: ids of the request frames written to a socket
  args,              \* the arguments and environment of a function call
  clock,             \* alerter: Date.now()
  gatewayState,      \* alerter: "UNKNOWN" | "UP" | "ALERTING"
  gatewayDownSince,  \* alerter: time the outage began, 0 = null
  consecutiveFailures,
  consecutiveGatewayUnreachable,
  consecutiveTailscaleDown,
  lastTailscaleState,   \* alerter: "null" | TRUE | FALSE
  lastFired,         \* alerter: rule -> time it last fired, 0 = no entry
  latencyBuffer,     \* alerter: response times of the last 5 healthy probes
  inflight,          \* evaluate() calls suspended at an await: where, with what
  raised,            \* history: rules whose alert the last step fired
  suppressed,        \* history: rules the last step found in cooldown
  probe,             \* history: the health result the last step was given
  failRun,           \* history: failed health probes given in a row
  lastGateway,       \* history: the last gateway_down/gateway_recovered fired
  tsRun,             \* history: not-running reports in a row after a running one
  lastRaised,        \* history: rule -> time of its last alert fired unforced
  deleted,           \* history: rules whose entry was deleted since that alert
  earlier            \* history: per rule raised by the last step, the time of
                     \* its alert before this one (0: none)

connVars == <<urlValid, sockets, ws, connected, handshakeComplete, connectedAt, serverInfo>>
tableVars == <<pending, timers, kindOf, nextId>>
reconnVars == <<reconnectDelay, reconnectTimer, reconnectTimers, expectedDelay>>
alerterVars == <<clock, gatewayState, gatewayDownSince, consecutiveFailures,
                 consecutiveGatewayUnreachable, consecutiveTailscaleDown,
                 lastTailscaleState, lastFired, latencyBuffer, inflight, raised,
                 suppressed, probe, failRun, lastGateway, tsRun, lastRaised, deleted, earlier>>
vars == <<urlValid, sockets, ws, connected, handshakeComplete, connectedAt, serverInfo,
          pending, timers, kindOf, nextId, reconnectDelay, reconnectTimer,
          reconnectTimers, observe, fired, timedOut, last, expectedDelay, disconnected,
          emitted, received, returned, carried, request, written, args,
          clock, gatewayState, gatewayDownSince, consecutiveFailures,
          consecutiveGatewayUnreachable, consecutiveTailscaleDown, lastTailscaleState,
          lastFired, latencyBuffer, inflight, raised, suppressed, probe, failRun,
          lastGateway, tsRun, lastRaised, deleted, earlier>>

FreeSocket == [readyState |-> "FREE", hsTimer |-> FALSE]

\* op: the handler; id: the id it was about (0 = none); how: the
\* continuation it invoked ("resolved"; "rejected": the RPC error with the
\* code and details of the frame; "handshakeFailed": the bare handshake
\* error; "timeout", "closed", "notReady") or what _send did with the
\* request frame ("sent", "dropped"),
\* "none" otherwise; delay: the delay of the reconnect timeout it armed
\* (0 = it armed none)
Did(op, id, how, delay) ==
  IF "last" \in observe THEN [op |-> op, id |-> id, how |-> how, delay |-> delay]
  ELSE [op |-> "constructor", id |-> 0, how |-> "none", delay |-> 0]

\* a frame as onmessage reads it: msg.type (with msg.event), msg.id, msg.ok,
\* msg.payload?.type, msg.payload.server and msg.payload?.nonce
Frame(t, i, k, p, sv, n) ==
  [type |-> t, id |-> i, ok |-> k, ptype |-> p, server |-> sv, nonce |-> n]

NoFrame == Frame("none", 0, FALSE, "none", FALSE, FALSE)

NoValue == [fn |-> "none"]

NoArgs == [fn |-> "none"]

NoRequest == [type |-> "none", id |-> 0, method |-> "none", params |-> <<>>]

\* this.emit(name, msg): the notification of the handler and its argument,
\* "none" if it emits none
EmitWith(name, msg) ==
  /\ emitted' = IF "emitted" \in observe THEN name ELSE "none"
  /\ carried' = IF "emitted" \in observe /\ name # "none" THEN msg ELSE NoFrame

Emit(name) == EmitWith(name, NoFrame)

\* a handler that passes no frame to _send
NoSend == request' = NoRequest /\ UNCHANGED written

\* the frame given to onmessage
Receive(msg) == received' = IF "received" \in observe THEN msg ELSE NoFrame

\* the value a function returns to its caller
Return(v) == returned' = IF "returned" \in observe THEN v ELSE NoValue

\* a handler that emits nothing, is given no frame and returns nothing
Quiet == Emit("none") /\ Receive(NoFrame) /\ Return(NoValue)

\* the rules of the alerter; only gateway_recovered is fired with forceSend
Rules == {"gateway_down", "gateway_unreachable", "high_error_rate", "restart_detected",
          "high_latency", "tailscale_down", "gateway_recovered"}

\* a health result as evaluate() reads it; gatewayReachable and
\* tailscaleRunning are "true", "false" or "null"
NoHealth ==
  [present |-> FALSE, up |-> FALSE, gatewayReachable |-> "null",
   tailscaleRunning |-> "null", responseTimeMs |-> 0]

\* a log result as evaluate() reads it
NoLog == [present |-> FALSE, skipped |-> FALSE, errorCount |-> 0, restartDetected |-> FALSE]

\* alerter.js when the module is loaded, with its history
InitAlerter ==
  /\ clock = START_MS
  /\ gatewayState = "UNKNOWN"
  /\ gatewayDownSince = 0
  /\ consecutiveFailures = 0
  /\ consecutiveGatewayUnreachable = 0
  /\ consecutiveTailscaleDown = 0
  /\ lastTailscaleState = "null"
  /\ lastFired = [r \in Rules |-> 0]
  /\ latencyBuffer = <<>>
  /\ inflight = {}
  /\ raised = {}
  /\ suppressed = {}
  /\ probe = NoHealth
  /\ failRun = 0
  /\ lastGateway = "none"
  /\ tsRun = -1
  /\ lastRaised = [r \in Rules |-> 0]
  /\ deleted = {}
  /\ earlier = [r \in Rules |-> 0]

\* constructor(): all fields at their initial values, no socket, no timer.
InitFields ==
  /\ urlValid \in BOOLEAN
  /\ sockets = [s \in Slots |-> FreeSocket]
  /\ ws = 0
  /\ connected = FALSE
  /\ handshakeComplete = FALSE
  /\ connectedAt = FALSE
  /\ serverInfo = FALSE
  /\ pending = {}
  /\ timers = {}
  /\ kindOf = [i \in Ids |-> "none"]
  /\ nextId = 1
  /\ reconnectDelay = RECONNECT_BASE_MS
  /\ reconnectTimer = FALSE
  /\ reconnectTimers = 0
  /\ fired = [i \in Ids |-> 0]
  /\ timedOut = {}
  /\ last = [op |-> "constructor", id |-> 0, how |-> "none", delay |-> 0]
  /\ expectedDelay = IF "expectedDelay" \in observe THEN RECONNECT_BASE_MS ELSE 0
  /\ disconnected = FALSE
  /\ emitted = "none"
  /\ received = NoFrame
  /\ returned = NoValue
  /\ carried = NoFrame
  /\ request = NoRequest
  /\ written = {}
  /\ InitAlerter

\* the client alone: no function is called apart from its methods
InitState == InitFields /\ args = NoArgs

\* The history variables do not act on the program; each specification
\* records the ones its properties read.
Init == observe = {"last"} /\ InitState

InitQuiet == observe = {} /\ InitState

InitTimeout == observe = {"last", "timedOut"} /\ InitState

InitBackoff == observe = {"last", "expectedDelay"} /\ InitState

InitApi == observe = {"disconnected"} /\ InitState

InitEvents == observe = {"last", "emitted", "received"} /\ InitState

InitStatus == observe = {"returned"} /\ InitState

InitFrames == observe = {"emitted", "received"} /\ InitState

InitSend == observe = {"written"} /\ InitState

\* isConnected(): the READY test used by call() and status().
isConnected_SocketOnly == connected

isConnected == connected /\ handshakeComplete

\* ------------------------------------------------------------ socket model
\* WebSocket.close(): a connecting or open socket starts closing; its close
\* event is delivered later.  A closing or closed socket is left alone.
CloseSocket(socks, s) ==
  IF s # 0 /\ socks[s].readyState \in {"CONNECTING", "OPEN"}
  THEN [socks EXCEPT ![s].readyState = "CLOSING"]
  ELSE socks

\* this._ws = null / this._ws = <new>: a closed socket that is no longer
\* referenced can deliver no event any more and its slot is reused.
Release(socks, s) ==
  IF s # 0 /\ socks[s].readyState = "CLOSED"
  THEN [socks EXCEPT ![s] = FreeSocket]
  ELSE socks

\* _send(obj): written only if the current socket is OPEN, else dropped
\* (no queue, no retry).
CanSend_Always(socks, s) == TRUE

CanSend(socks, s) == s # 0 /\ socks[s].readyState = "OPEN"

Send(socks, s) == IF CanSend(socks, s) THEN "sent" ELSE "dropped"

\* this._send({type: "req", id, method, params}) on the current socket
SendFrame(id, method, params) ==
  /\ request' = IF "request" \in observe
                THEN [type |-> "req", id |-> id, method |-> method, params |-> params]
                ELSE NoRequest
  /\ written' = IF "written" \in observe /\ CanSend(sockets, ws)
                THEN written \cup {id} ELSE written

\* this._pending.delete(id)
Delete_Keep(tbl, id) == tbl

Delete_All(tbl, id) == {}

Delete(tbl, id) == tbl \ {id}

\* invoking a continuation of each entry in ids
Bump(f, ids) == [i \in Ids |-> IF i \in ids THEN Min(f[i] + 1, 2) ELSE f[i]]

\* ------------------------------------------------------ _scheduleReconnect
\* "if (this._reconnectTimer) return": tm is the value of the field when
\* _scheduleReconnect is entered.
ScheduleGuard_Off(tm) == FALSE

ScheduleGuard(tm) == tm

\* Math.min(this._reconnectDelay * 2, RECONNECT_MAX_MS)
NextDelay_NoCap(d) == d * 2

NextDelay(d) == Min(d * 2, RECONNECT_MAX_MS)

\* "const delay = this._reconnectDelay" of a _scheduleReconnect() entered
\* with the field at tm: the delay of the timeout armed, 0 if none is armed
ArmedDelay(tm) == IF ScheduleGuard(tm) THEN 0 ELSE reconnectDelay

\* history: the delay the backoff rule gives the next reconnect; 0 = the
\* run is not followed (connect() on a live socket or disconnect() cut in)
ExpectedNext(e) == IF e = 0 THEN 0 ELSE NextDelay(e)

\* a _scheduleReconnect() that arms nothing
ScheduleReconnect_Never(tm, cnt, e) ==
  /\ reconnectTimer' = tm
  /\ reconnectTimers' = cnt
  /\ expectedDelay' = e
  /\ UNCHANGED reconnectDelay

\* _scheduleReconnect(), entered with the field this._reconnectTimer = tm,
\* cnt timeouts armed and the history value e.
ScheduleReconnect(tm, cnt, e) ==
  IF ScheduleGuard(tm)
  THEN /\ reconnectTimer' = tm
       /\ reconnectTimers' = cnt
       /\ expectedDelay' = e
       /\ UNCHANGED reconnectDelay
  ELSE /\ reconnectDelay' = NextDelay(reconnectDelay)
       /\ reconnectTimer' = TRUE
       /\ reconnectTimers' = cnt + 1
       /\ expectedDelay' = ExpectedNext(e)

\* -------------------------------------------------------------- _doConnect
\* _doConnect(): closes and drops the current socket, then creates a new
\* one with its handshake timer and handlers; a throwing constructor
\* schedules a reconnect instead (no socket, no handshake timer).
DoConnect(tm, cnt, e) ==
  LET dropped == Release(CloseSocket(sockets, ws), ws)
      free == {s \in Slots : dropped[s].readyState = "FREE"}
  IN IF ~urlValid
     THEN /\ ws' = 0
          /\ sockets' = dropped
          /\ ScheduleReconnect(tm, cnt, e)
     ELSE /\ free # {}
          /\ LET n == CHOOSE s \in free : \A o \in free : s <= o
             IN /\ ws' = n
                /\ sockets' = [dropped EXCEPT ![n] =
                                 [readyState |-> "CONNECTING", hsTimer |-> TRUE]]
          /\ reconnectTimer' = tm
          /\ reconnectTimers' = cnt
          /\ expectedDelay' = e
          /\ UNCHANGED reconnectDelay

\* connect()
Connect ==
  /\ DoConnect(reconnectTimer, reconnectTimers, IF ws # 0 THEN 0 ELSE expectedDelay)
  /\ last' = Did("connect", 0, "none", IF urlValid THEN 0 ELSE ArmedDelay(reconnectTimer))
  /\ NoSend
  /\ Quiet
  /\ disconnected' = FALSE
  /\ UNCHANGED <<urlValid, connected, handshakeComplete, connectedAt, serverInfo,
                 observe, args, alerterVars, tableVars, fired, timedOut>>

\* the timeout armed by _scheduleReconnect fires
ReconnectFire ==
  /\ reconnectTimers > 0
  /\ DoConnect(FALSE, reconnectTimers - 1, expectedDelay)
  /\ last' = Did("reconnectFire", 0, "none", IF urlValid THEN 0 ELSE ArmedDelay(FALSE))
  /\ NoSend
  /\ Quiet
  /\ UNCHANGED <<urlValid, connected, handshakeComplete, connectedAt, serverInfo,
                 observe, args, alerterVars, tableVars, fired, timedOut, disconnected>>

\* disconnect()
Disconnect ==
  /\ reconnectTimer' = FALSE
  /\ reconnectTimers' = IF reconnectTimer THEN reconnectTimers - 1 ELSE reconnectTimers
  /\ sockets' = Release(CloseSocket(sockets, ws), ws)
  /\ ws' = 0
  /\ connected' = FALSE
  /\ handshakeComplete' = FALSE
  /\ disconnected' = ("disconnected" \in observe)
  /\ expectedDelay' = 0
  /\ last' = Did("disconnect", 0, "none", 0)
  /\ NoSend
  /\ Quiet
  /\ UNCHANGED <<urlValid, connectedAt, serverInfo, observe, args, alerterVars, tableVars, fired, timedOut,
                 reconnectDelay>>

\* ------------------------------------------------------------- device auth
\* An optional string is <<>> when it is undefined and <<s>> when it is the
\* string s.  Truthy(v): the value passes a JavaScript truth test.
Truthy(v) == v # <<>> /\ v[1] # ""

\* the text Array.prototype.join and String give an optional string
StrOf(v) == IF v = <<>> THEN "" ELSE v[1]

\* Array.prototype.join(sep) of an array of strings
RECURSIVE Join(_, _)
Join(parts, sep) ==
  IF parts = <<>> THEN ""
  ELSE IF Len(parts) = 1 THEN parts[1]
  ELSE parts[1] \o sep \o Join(Tail(parts), sep)

\* String(n) of a non-negative integer: its decimal digits
RECURSIVE String(_)
String(n) ==
  LET digit == <<"0", "1", "2", "3", "4", "5", "6", "7", "8", "9">>[(n % 10) + 1]
  IN IF n < 10 THEN digit ELSE String(n \div 10) \o digit

\* const version = nonce ? "v2" : "v1"
Version_AlwaysV1(nonce) == "v1"

Version(nonce) == IF Truthy(nonce) THEN "v2" ELSE "v1"

\* buildDeviceAuthPayload({deviceId, clientId, clientMode, role, scopes,
\* signedAtMs, token, nonce})
buildDeviceAuthPayload(a) ==
  LET version == Version(a.nonce)
      parts == <<version, a.deviceId, a.clientId, a.clientMode, a.role,
                 Join(a.scopes, ","), String(a.signedAtMs),
                 IF Truthy(a.token) THEN a.token[1] ELSE "">>
  IN Join(IF version = "v2" THEN Append(parts, StrOf(a.nonce)) ELSE parts, "|")

\* signPayload(privKeyBase64Url, payload): the ED25519 signature is a
\* function of the key and of the signed text
signPayload(privKey, payload) == [key |-> privKey, text |-> payload]

\* const useDeviceAuth = GATEWAY_DEVICE_ID && GATEWAY_DEVICE_TOKEN &&
\* GATEWAY_DEVICE_PRIVKEY, read as a condition; an unset variable is ""
UseDeviceAuth_NoKey(env) == env.GATEWAY_DEVICE_ID # "" /\ env.GATEWAY_DEVICE_TOKEN # ""

UseDeviceAuth(env) ==
  /\ env.GATEWAY_DEVICE_ID # ""
  /\ env.GATEWAY_DEVICE_TOKEN # ""
  /\ env.GATEWAY_DEVICE_PRIVKEY # ""

\* "nonce || undefined"
OrUndefined(v) == IF Truthy(v) THEN v ELSE <<>>

\* the params of the connect request that _sendConnectRequest(nonce) builds
\* at time now; a field that is undefined or not set is <<>> (JSON.stringify
\* leaves it out)
ConnectParams(env, nonce, now) ==
  LET useDeviceAuth == UseDeviceAuth(env)
      role == "operator"
      scopes == <<"operator.read", "operator.write", "operator.admin">>
      payload == buildDeviceAuthPayload(
                   [deviceId |-> env.GATEWAY_DEVICE_ID, clientId |-> "gateway-client",
                    clientMode |-> "backend", role |-> role, scopes |-> scopes,
                    signedAtMs |-> now, token |-> <<env.GATEWAY_DEVICE_TOKEN>>,
                    nonce |-> OrUndefined(nonce)])
  IN [minProtocol |-> 3,
      maxProtocol |-> 3,
      client |-> [id |-> "gateway-client", displayName |-> "xavier-monitor",
                  version |-> "1.0.0", platform |-> "node", mode |-> "backend"],
      auth |-> [token |-> IF useDeviceAuth THEN <<env.GATEWAY_DEVICE_TOKEN>>
                          ELSE OrUndefined(<<env.GATEWAY_TOKEN>>)],
      device |-> IF useDeviceAuth
                 THEN <<[id |-> env.GATEWAY_DEVICE_ID,
                         publicKey |-> env.GATEWAY_DEVICE_PUBKEY,
                         signature |-> signPayload(env.GATEWAY_DEVICE_PRIVKEY, payload),
                         signedAt |-> now,
                         nonce |-> OrUndefined(nonce)]>>
                 ELSE <<>>,
      role |-> IF useDeviceAuth THEN <<role>> ELSE <<>>,
      scopes |-> IF useDeviceAuth THEN <<scopes>> ELSE <<>>]

\* ------------------------------------------------------------------ status
\* this._pending.size
PendingCalls_CallsOnly(tbl) == Cardinality({i \in tbl : kindOf[i] = "call"})

PendingCalls(tbl) == Cardinality(tbl)

\* the object status() returns; uptime is Date.now() - connectedAt while
\* connectedAt is set, else 0
status ==
  [connected |-> isConnected,
   connectedAt |-> connectedAt,
   uptime |-> IF connectedAt THEN "elapsed" ELSE "zero",
   server |-> serverInfo,
   pendingCalls |-> PendingCalls(pending)]

\* status()
Status ==
  /\ Return([fn |-> "status", value |-> status])
  /\ Emit("none")
  /\ Receive(NoFrame)
  /\ last' = Did("status", 0, "none", 0)
  /\ NoSend
  /\ UNCHANGED <<connVars, observe, args, alerterVars, tableVars, fired, timedOut, reconnVars,
                 disconnected>>

\* -------------------------------------------------------------------- call
\* the entry timer armed with setTimeout by call() and _sendConnectRequest()
ArmTimer_None(tms, id) == tms

ArmTimer(tms, id) == tms \cup {id}

\* call(method, params): the method name and the parameters only travel in
\* the frame and in the error text, they select no branch.
Call ==
  IF ~isConnected
  THEN /\ last' = Did("call", 0, "notReady", 0)
       /\ NoSend
       /\ Quiet
       /\ UNCHANGED <<connVars, observe, args, alerterVars, tableVars, fired, timedOut, reconnVars,
                      disconnected>>
  ELSE /\ nextId <= MaxIds
       /\ timers' = ArmTimer(timers, nextId)
       /\ pending' = pending \cup {nextId}
       /\ kindOf' = [kindOf EXCEPT ![nextId] = "call"]
       /\ nextId' = nextId + 1
       /\ last' = Did("call", nextId, Send(sockets, ws), 0)
       /\ SendFrame(nextId, "call", <<>>)
       /\ Quiet
       /\ UNCHANGED <<connVars, observe, args, alerterVars, fired, timedOut, reconnVars, disconnected>>

\* the timeout armed by call() fires: delete the entry, reject with the
\* timeout error.  The callback does not look the entry up first.
CallTimeout(id) ==
  /\ id \in timers
  /\ kindOf[id] = "call"
  /\ timers' = timers \ {id}
  /\ pending' = Delete(pending, id)
  /\ fired' = Bump(fired, {id})
  /\ timedOut' = IF "timedOut" \in observe THEN timedOut \cup {id} ELSE timedOut
  /\ last' = Did("callTimeout", id, "timeout", 0)
  /\ NoSend
  /\ Quiet
  /\ UNCHANGED <<connVars, observe, args, alerterVars, kindOf, nextId, reconnVars, disconnected>>

\* the timeout armed by _sendConnectRequest fires: delete the entry and
\* close the current socket; neither continuation of the entry is invoked.
ConnectTimeout(id) ==
  /\ id \in timers
  /\ kindOf[id] = "connect"
  /\ timers' = timers \ {id}
  /\ pending' = Delete(pending, id)
  /\ sockets' = CloseSocket(sockets, ws)
  /\ last' = Did("connectTimeout", id, "none", 0)
  /\ NoSend
  /\ Quiet
  /\ UNCHANGED <<urlValid, ws, connected, handshakeComplete, connectedAt, serverInfo,
                 observe, args, alerterVars, kindOf, nextId, fired, timedOut, reconnVars, disconnected>>

\* the handshake timeout armed by _doConnect for socket s fires
HandshakeTimeout(s) ==
  /\ sockets[s].hsTimer
  /\ LET off == [sockets EXCEPT ![s].hsTimer = FALSE]
     IN sockets' = IF ~handshakeComplete THEN CloseSocket(off, ws) ELSE off
  /\ last' = Did("handshakeTimeout", 0, "none", 0)
  /\ NoSend
  /\ Quiet
  /\ UNCHANGED <<urlValid, ws, connected, handshakeComplete, connectedAt, serverInfo,
                 observe, args, alerterVars, tableVars, fired, timedOut, reconnVars, disconnected>>

\* ------------------------------------------------------------------ onopen
\* this._reconnectDelay = RECONNECT_BASE_MS
DelayOnOpen_Keep(d) == d

DelayOnOpen(d) == RECONNECT_BASE_MS

\* history: a step that makes isConnected() true starts a new run
ExpectedOnReady(e, was, now) ==
  IF "expectedDelay" \in observe /\ ~was /\ now THEN RECONNECT_BASE_MS ELSE e

OnOpen(s) ==
  /\ sockets[s].readyState = "CONNECTING"
  /\ sockets' = [sockets EXCEPT ![s].readyState = "OPEN"]
  /\ connected' = TRUE
  /\ reconnectDelay' = DelayOnOpen(reconnectDelay)
  /\ expectedDelay' = ExpectedOnReady(expectedDelay, isConnected, handshakeComplete)
  /\ last' = Did("open", 0, "none", 0)
  /\ NoSend
  /\ Quiet
  /\ UNCHANGED <<urlValid, ws, handshakeComplete, connectedAt, serverInfo, observe, args, alerterVars,
                 tableVars, fired, timedOut, reconnectTimer, reconnectTimers, disconnected>>

\* --------------------------------------------------------------- onmessage
\* Inbound frames.  type "bad" is data that JSON.parse rejects.  id 0 is an
\* id this client never generated; of the ids it generated (random UUIDs) the
\* server knows those that were written to a socket.
Frames ==
  {Frame("bad", 0, FALSE, "none", FALSE, FALSE)}
  \cup {Frame("challenge", 0, FALSE, "none", FALSE, n) : n \in BOOLEAN}
  \cup {Frame("event", 0, FALSE, p, FALSE, FALSE) : p \in {"none", "other"}}
  \cup {Frame("res", i, k, "hello-ok", sv, FALSE) :
          i \in 0..MaxIds, k \in BOOLEAN, sv \in BOOLEAN}
  \cup {Frame("res", i, k, "other", FALSE, FALSE) : i \in 0..MaxIds, k \in BOOLEAN}

\* this._pending.get(msg.id): the entry to settle, 0 when there is none
PendingGet_Oldest(tbl, i) ==
  IF tbl = {} THEN 0 ELSE CHOOSE e \in tbl : \A o \in tbl : e <= o

PendingGet(tbl, i) == IF i \in tbl THEN i ELSE 0

\* The ids a response frame can carry: 0 and the ids the server has read
\* from a socket.  Where the written ids are not recorded every id generated
\* so far is allowed, which adds behaviours and removes none.
Answerable ==
  IF "written" \in observe THEN written \cup {0} ELSE 0..(nextId - 1)

\* msg.payload?.nonce of a connect.challenge
NonceOf_None(msg) == <<>>

NonceOf(msg) == IF msg.nonce THEN <<"n1">> ELSE <<>>

\* _sendConnectRequest(nonce); the environment and the clock are read when
\* the request is recorded
SendConnectRequest(nonce) ==
  /\ nextId <= MaxIds
  /\ timers' = ArmTimer(timers, nextId)
  /\ pending' = pending \cup {nextId}
  /\ kindOf' = [kindOf EXCEPT ![nextId] = "connect"]
  /\ nextId' = nextId + 1
  /\ SendFrame(nextId, "connect",
               IF "request" \in observe THEN <<ConnectParams(args.env, nonce, args.now)>>
               ELSE <<>>)

\* "if (pending) { clearTimeout(pending.timer); this._pending.delete(msg.id);
\* pending.resolve/reject(...) }" for the entry e found by PendingGet
Settle(e, i) ==
  IF e # 0
  THEN /\ timers' = timers \ {e}
       /\ pending' = Delete(pending, i)
       /\ fired' = Bump(fired, {e})
  ELSE UNCHANGED <<timers, pending, fired>>

\* the "res" case of onmessage of socket s
OnResponse(s, msg) ==
  LET e == PendingGet(pending, msg.id)
      hello == ~handshakeComplete /\ msg.ptype = "hello-ok"
      failed == ~hello /\ ~handshakeComplete /\ ~msg.ok
      how == IF e = 0 THEN "none"
             ELSE IF hello THEN "resolved"
             ELSE IF failed THEN "handshakeFailed"
             ELSE IF msg.ok THEN "resolved" ELSE "rejected"
  IN
  /\ Settle(e, msg.id)
  /\ last' = Did("res", msg.id, how, 0)
  /\ NoSend
  /\ EmitWith(IF hello THEN "connected" ELSE "none", msg)
  /\ Receive(msg)
  /\ Return(NoValue)
  /\ IF hello
     THEN /\ sockets' = [sockets EXCEPT ![s].hsTimer = FALSE]
          /\ handshakeComplete' = TRUE
          /\ connectedAt' = TRUE
          /\ serverInfo' = msg.server
          /\ expectedDelay' = ExpectedOnReady(expectedDelay, isConnected, connected)
     ELSE IF failed
     THEN /\ sockets' = CloseSocket([sockets EXCEPT ![s].hsTimer = FALSE], ws)
          /\ UNCHANGED <<handshakeComplete, connectedAt, serverInfo, expectedDelay>>
     ELSE UNCHANGED <<sockets, handshakeComplete, connectedAt, serverInfo, expectedDelay>>
  /\ UNCHANGED <<urlValid, ws, connected, observe, args, alerterVars, kindOf, nextId, timedOut,
                 reconnectDelay, reconnectTimer, reconnectTimers, disconnected>>

\* "catch (err) { console.error(...); return; }": what onmessage of socket
\* s does to the sockets when JSON.parse throws
InvalidJson_Close(socks, s) == CloseSocket(socks, s)

InvalidJson(socks, s) == socks

\* msg.type === "event" && msg.event === "connect.challenge"
IsChallenge_Never(msg) == FALSE

IsChallenge(msg) == msg.type = "challenge"

\* msg.type === "event": a connect.challenge is an event frame as well
IsEvent(msg) == msg.type \in {"event", "challenge"}

\* onmessage of socket s; a message event is delivered only by an open
\* socket.  The tests are made in the order of the code, each branch returns.
OnMessage(s, msg) ==
  /\ sockets[s].readyState = "OPEN"
  /\ msg.type = "res" => msg.id \in Answerable
  /\ IF msg.type = "bad"
     THEN /\ sockets' = InvalidJson(sockets, s)
          /\ last' = Did("bad", 0, "none", 0)
          /\ NoSend
          /\ Emit("none") /\ Receive(msg) /\ Return(NoValue)
          /\ UNCHANGED <<urlValid, ws, connected, handshakeComplete, connectedAt,
                         serverInfo, observe, args, alerterVars, tableVars, fired, timedOut,
                         reconnVars, disconnected>>
     ELSE IF IsChallenge(msg)
     THEN /\ SendConnectRequest(NonceOf(msg))
          /\ last' = Did("challenge", nextId, Send(sockets, ws), 0)
          /\ Emit("none") /\ Receive(msg) /\ Return(NoValue)
          /\ UNCHANGED <<connVars, observe, args, alerterVars, fired, timedOut, reconnVars, disconnected>>
     ELSE IF msg.type = "res"
     THEN OnResponse(s, msg)
     ELSE /\ last' = Did("event", 0, "none", 0)
          /\ NoSend
          /\ EmitWith(IF IsEvent(msg) THEN "event" ELSE "none", msg)
          /\ Receive(msg) /\ Return(NoValue)
          /\ UNCHANGED <<connVars, observe, args, alerterVars, tableVars, fired, timedOut, reconnVars,
                         disconnected>>

\* ----------------------------------------------------------------- onclose
\* "for (const [id, entry] of this._pending) clearTimeout(entry.timer)"
ClearTimers_None(tms, tbl) == tms

ClearTimers(tms, tbl) == tms \ tbl

\* the close event of socket s (after a failed connect, a socket error, a
\* close by the server, or a close() by this client)
OnClose(s) ==
  /\ sockets[s].readyState \in {"CONNECTING", "OPEN", "CLOSING"}
  /\ sockets' = [sockets EXCEPT ![s] =
                   IF s = ws THEN [readyState |-> "CLOSED", hsTimer |-> FALSE]
                   ELSE FreeSocket]
  /\ connected' = FALSE
  /\ handshakeComplete' = FALSE
  /\ connectedAt' = FALSE
  /\ serverInfo' = FALSE
  /\ timers' = ClearTimers(timers, pending)
  /\ fired' = Bump(fired, pending)
  /\ pending' = {}
  /\ ScheduleReconnect(reconnectTimer, reconnectTimers, expectedDelay)
  /\ last' = Did("close", 0, IF pending # {} THEN "closed" ELSE "none",
                 ArmedDelay(reconnectTimer))
  /\ NoSend
  /\ Emit(IF handshakeComplete THEN "disconnected" ELSE "none")
  /\ Receive(NoFrame)
  /\ Return(NoValue)
  /\ UNCHANGED <<urlValid, ws, observe, args, alerterVars, kindOf, nextId, timedOut, disconnected>>

\* ------------------------------------------------------- device auth, inputs
MaxScopes == 2       \* scopes given to buildDeviceAuthPayload

OptionalStrings(s) == {<<>>, <<"">>, <<s>>}

\* the arguments buildDeviceAuthPayload is applied to
PayloadArgs ==
  [fn : {"buildDeviceAuthPayload"},
   deviceId : {"", "d1"},
   clientId : {"gateway-client"},
   clientMode : {"backend"},
   role : {"operator"},
   scopes : UNION {[1..n -> {"a", "b"}] : n \in 0..MaxScopes},
   signedAtMs : {0, 7, 1000},
   token : OptionalStrings("tok"),
   nonce : OptionalStrings("n1")]

\* the environment, the nonce of the challenge and the time at which
\* _sendConnectRequest builds its request
RequestArgs ==
  [fn : {"_sendConnectRequest"},
   env : [GATEWAY_TOKEN : {"", "tok"},
          GATEWAY_DEVICE_ID : {"", "d1"},
          GATEWAY_DEVICE_TOKEN : {"", "dtok"},
          GATEWAY_DEVICE_PUBKEY : {"", "pub"},
          GATEWAY_DEVICE_PRIVKEY : {"", "priv"}],
   nonce : OptionalStrings("n1"),
   now : {1000}]

\* the environment and the clock of a running client: all device
\* credentials configured, or the private key missing
ClientArgs ==
  [fn : {"GatewayClient"},
   env : [GATEWAY_TOKEN : {"tok"},
          GATEWAY_DEVICE_ID : {"d1"},
          GATEWAY_DEVICE_TOKEN : {"dtok"},
          GATEWAY_DEVICE_PUBKEY : {"pub"},
          GATEWAY_DEVICE_PRIVKEY : {"", "priv"}],
   now : {1000}]

InitWire == observe = {"request"} /\ InitFields /\ args \in ClientArgs

InitAuth ==
  /\ observe = {"returned"}
  /\ InitFields
  /\ urlValid
  /\ (args \in PayloadArgs \/ args \in RequestArgs)

\* a call of buildDeviceAuthPayload
BuildDeviceAuthPayload ==
  /\ args.fn = "buildDeviceAuthPayload"
  /\ Return([fn |-> args.fn, value |-> buildDeviceAuthPayload(args)])
  /\ UNCHANGED <<connVars, observe, args, alerterVars, tableVars, fired, timedOut, reconnVars,
                 disconnected, last, emitted, received, carried, request, written>>

\* the connect request of a call of _sendConnectRequest
BuildConnectParams ==
  /\ args.fn = "_sendConnectRequest"
  /\ Return([fn |-> args.fn, value |-> ConnectParams(args.env, args.nonce, args.now)])
  /\ UNCHANGED <<connVars, observe, args, alerterVars, tableVars, fired, timedOut, reconnVars,
                 disconnected, last, emitted, received, carried, request, written>>

NextAuth == BuildDeviceAuthPayload \/ BuildConnectParams

\* ----------------------------------------------------------------- alerter
\* COOLDOWNS[rule], 0 where the table has no entry (the environment
\* variables that override an entry are not set)
COOLDOWNS(rule) ==
  CASE rule = "gateway_down" -> 900000
    [] rule = "gateway_unreachable" -> 900000
    [] rule = "high_error_rate" -> 1800000
    [] rule = "restart_detected" -> 600000
    [] rule = "high_latency" -> 1800000
    [] rule = "tailscale_down" -> 3600000
    [] OTHER -> 0

\* "COOLDOWNS[rule] || 900_000"
Cooldown(rule) == IF COOLDOWNS(rule) # 0 THEN COOLDOWNS(rule) ELSE DEFAULT_COOLDOWN_MS

\* "last && Date.now() - last < cooldown" with last = lastFired.get(rule)
InCooldown_Never(lf, rule, t) == FALSE

InCooldown(lf, rule, t) == lf[rule] # 0 /\ t - lf[rule] < Cooldown(rule)

\* the module state of alerter.js as one value
AlerterState ==
  [gatewayState |-> gatewayState,
   gatewayDownSince |-> gatewayDownSince,
   consecutiveFailures |-> consecutiveFailures,
   consecutiveGatewayUnreachable |-> consecutiveGatewayUnreachable,
   consecutiveTailscaleDown |-> consecutiveTailscaleDown,
   lastTailscaleState |-> lastTailscaleState,
   lastFired |-> lastFired,
   latencyBuffer |-> latencyBuffer]

\* What a stretch of evaluate() between two awaits has done: the state it
\* leaves, the rule it called fireAlert for ("none": no call), whether the
\* alert was fired (not suppressed), and the place where evaluate() goes on.
NoCall(st, next) == [st |-> st, rule |-> "none", sent |-> FALSE, next |-> next]

\* fireAlert(rule, severity, message, forceSend) at time t, up to its await:
\* null while the rule is in cooldown, else the time is stored and the alert
\* is sent and recorded
fireAlert(st, rule, forceSend, t, next) ==
  IF ~forceSend /\ InCooldown(st.lastFired, rule, t)
  THEN [st |-> st, rule |-> rule, sent |-> FALSE, next |-> next]
  ELSE [st |-> [st EXCEPT !.lastFired[rule] = t], rule |-> rule, sent |-> TRUE,
        next |-> next]

\* the sum of a sequence of numbers
RECURSIVE Sum(_)
Sum(s) == IF s = <<>> THEN 0 ELSE Head(s) + Sum(Tail(s))

\* "consecutiveTailscaleDown++" is reached when the probe reports Tailscale
\* not running and the report before it was running
TailscaleWentDown_AnyLast(h, st) == h.tailscaleRunning = "false"

TailscaleWentDown(h, st) ==
  h.tailscaleRunning = "false" /\ st.lastTailscaleState = "true"

\* evaluate(healthResult, logResult) from the place "at" up to the next
\* fireAlert call or the next place
Stage(at, st, h, lg, t) ==
  CASE at = "gateway" ->
         IF ~h.present THEN NoCall(st, "logs")
         ELSE IF ~h.up
         THEN LET n == st.consecutiveFailures + 1
                  counted == [st EXCEPT !.consecutiveFailures = n]
              IN IF n >= CONSECUTIVE_FAILURES /\ st.gatewayState # "ALERTING"
                 THEN fireAlert([counted EXCEPT !.gatewayState = "ALERTING",
                                                !.gatewayDownSince = t - n * PROBE_MS],
                                "gateway_down", FALSE, t, "logs")
                 ELSE NoCall(counted, "logs")
         ELSE IF st.gatewayState = "ALERTING" /\ st.gatewayDownSince # 0
         THEN fireAlert(st, "gateway_recovered", TRUE, t, "recovered")
         ELSE NoCall(st, "up")
    [] at = "recovered" ->
         NoCall([st EXCEPT !.lastFired["gateway_down"] = 0], "up")
    [] at = "up" ->
         NoCall([st EXCEPT !.consecutiveFailures = 0, !.gatewayState = "UP",
                           !.gatewayDownSince = 0], "unreachable")
    [] at = "unreachable" ->
         IF h.gatewayReachable = "false"
         THEN LET n == st.consecutiveGatewayUnreachable + 1
                  counted == [st EXCEPT !.consecutiveGatewayUnreachable = n]
              IN IF n >= CONSECUTIVE_FAILURES
                 THEN fireAlert(counted, "gateway_unreachable", FALSE, t, "tailscale")
                 ELSE NoCall(counted, "tailscale")
         ELSE NoCall([st EXCEPT !.consecutiveGatewayUnreachable = 0], "tailscale")
    [] at = "tailscale" ->
         IF TailscaleWentDown(h, st)
         THEN LET n == st.consecutiveTailscaleDown + 1
                  counted == [st EXCEPT !.consecutiveTailscaleDown = n]
              IN IF n >= CONSECUTIVE_FAILURES
                 THEN fireAlert(counted, "tailscale_down", FALSE, t, "tailscaleState")
                 ELSE NoCall(counted, "tailscaleState")
         ELSE IF h.tailscaleRunning = "true"
         THEN NoCall([st EXCEPT !.consecutiveTailscaleDown = 0], "tailscaleState")
         ELSE NoCall(st, "tailscaleState")
    [] at = "tailscaleState" ->
         NoCall(IF h.tailscaleRunning # "null"
                THEN [st EXCEPT !.lastTailscaleState = h.tailscaleRunning]
                ELSE st, "latency")
    [] at = "latency" ->
         LET pushed == Append(st.latencyBuffer, h.responseTimeMs)
             buf == IF Len(pushed) > LATENCY_SAMPLES THEN Tail(pushed) ELSE pushed
             kept == [st EXCEPT !.latencyBuffer = buf]
         IN IF Len(buf) >= LATENCY_SAMPLES /\ Sum(buf) > HIGH_LATENCY_MS * Len(buf)
            THEN fireAlert(kept, "high_latency", FALSE, t, "logs")
            ELSE NoCall(kept, "logs")
    [] at = "logs" ->
         IF lg.present /\ ~lg.skipped
         THEN IF lg.errorCount >= HIGH_ERROR_THRESHOLD
              THEN fireAlert(st, "high_error_rate", FALSE, t, "restart")
              ELSE NoCall(st, "restart")
         ELSE NoCall(st, "done")
    [] at = "restart" ->
         IF lg.restartDetected
         THEN fireAlert(st, "restart_detected", FALSE, t, "done")
         ELSE NoCall(st, "done")

\* evaluate() from the place "at" until it returns or is suspended: with
\* Telegram configured (tg) "await fireAlert(...)" of an alert that is sent
\* waits for the network, and other callbacks run before evaluate() goes on;
\* a suppressed alert and an alert without Telegram do not wait for anything.
RECURSIVE Run(_, _, _, _, _, _)
Run(at, st, h, lg, t, tg) ==
  LET r == Stage(at, st, h, lg, t)
      fired1 == IF r.sent THEN {r.rule} ELSE {}
      held1 == IF r.rule # "none" /\ ~r.sent THEN {r.rule} ELSE {}
  IN IF r.next = "done" \/ (r.sent /\ tg)
     THEN [st |-> r.st, raised |-> fired1, suppressed |-> held1, at |-> r.next]
     ELSE LET rest == Run(r.next, r.st, h, lg, t, tg)
          IN [st |-> rest.st, raised |-> fired1 \cup rest.raised,
              suppressed |-> held1 \cup rest.suppressed, at |-> rest.at]

\* history of a stretch of evaluate() that was given the health result h
\* (NoHealth: it was given none, or it was resumed) with the outcome r
Recorded(h, r) ==
  /\ IF "alerts" \in observe
     THEN raised' = r.raised /\ suppressed' = r.suppressed /\ probe' = h
     ELSE UNCHANGED <<raised, suppressed, probe>>
  /\ IF "outage" \in observe
     THEN /\ failRun' = IF ~h.present THEN failRun ELSE IF h.up THEN 0 ELSE failRun + 1
          /\ lastGateway' = IF "gateway_recovered" \in r.raised THEN "gateway_recovered"
                            ELSE IF "gateway_down" \in r.raised THEN "gateway_down"
                            ELSE lastGateway
     ELSE UNCHANGED <<failRun, lastGateway>>
  /\ IF "tailscale" \in observe
     THEN tsRun' = IF ~h.present THEN tsRun
                   ELSE IF h.up /\ h.tailscaleRunning = "true" THEN 0
                   ELSE IF h.up /\ h.tailscaleRunning = "false" /\ tsRun \in 0..2
                   THEN tsRun + 1
                   ELSE -1
     ELSE UNCHANGED tsRun
  /\ IF "cooldown" \in observe
     THEN /\ lastRaised' = [x \in Rules |->
                              IF x \in r.raised /\ x # "gateway_recovered" THEN clock
                              ELSE lastRaised[x]]
          /\ deleted' = (deleted \cup {x \in Rules : lastFired[x] # 0
                                                      /\ r.st.lastFired[x] = 0})
                          \ r.raised
          /\ earlier' = [x \in Rules |->
                           IF x \in r.raised /\ x # "gateway_recovered"
                           THEN lastRaised[x] ELSE 0]
     ELSE UNCHANGED <<lastRaised, deleted, earlier>>

\* the module state after a stretch of evaluate() with the outcome r, and
\* the call when it is suspended
Proceed(h, lg, r, others) ==
  /\ gatewayState' = r.st.gatewayState
  /\ gatewayDownSince' = r.st.gatewayDownSince
  /\ consecutiveFailures' = r.st.consecutiveFailures
  /\ consecutiveGatewayUnreachable' = r.st.consecutiveGatewayUnreachable
  /\ consecutiveTailscaleDown' = r.st.consecutiveTailscaleDown
  /\ lastTailscaleState' = r.st.lastTailscaleState
  /\ lastFired' = r.st.lastFired
  /\ latencyBuffer' = r.st.latencyBuffer
  /\ LET call == [at |-> r.at, h |-> h, lg |-> lg]
     IN IF r.at = "done" THEN inflight' = others
        ELSE /\ call \notin others
             /\ Cardinality(others) < MaxInFlight
             /\ inflight' = others \cup {call}
  /\ UNCHANGED <<connVars, observe, args, tableVars, reconnVars, fired, timedOut, last,
                 disconnected, emitted, received, returned, carried, request, written,
                 clock>>

\* the health results of the probes: the wrapper did not answer, or it
\* answered with what it knows of the gateway and of Tailscale
Down == [NoHealth EXCEPT !.present = TRUE]

Up(reachable, running, ms) ==
  [present |-> TRUE, up |-> TRUE, gatewayReachable |-> reachable,
   tailscaleRunning |-> running, responseTimeMs |-> ms]

HealthResults ==
  {Down} \cup {Up(g, ts, ms) : g \in {"true", "false", "null"},
                              ts \in {"true", "false", "null"}, ms \in {100, 9000}}

LogResult(skipped, errorCount, restartDetected) ==
  [present |-> TRUE, skipped |-> skipped, errorCount |-> errorCount,
   restartDetected |-> restartDetected]

LogResults ==
  {LogResult(s, n, r) : s \in BOOLEAN, n \in {0, HIGH_ERROR_THRESHOLD}, r \in BOOLEAN}

\* healthLoop: evaluate(result, null); the counters stay within the bound
EvaluateHealth(h) ==
  /\ args.fn = "evaluate"
  /\ h \in args.health
  /\ ~h.up => consecutiveFailures < MaxFailures
  /\ h.gatewayReachable = "false" => consecutiveGatewayUnreachable < MaxFailures
  /\ LET r == Run("gateway", AlerterState, h, NoLog, clock, args.telegram)
     IN Proceed(h, NoLog, r, inflight) /\ Recorded(h, r)

\* logLoop: evaluate(null, result)
EvaluateLogs(lg) ==
  /\ args.fn = "evaluate"
  /\ lg \in args.logs
  /\ LET r == Run("gateway", AlerterState, NoHealth, lg, clock, args.telegram)
     IN Proceed(NoHealth, lg, r, inflight) /\ Recorded(NoHealth, r)

\* the Telegram request of a suspended evaluate() completes (or fails): the
\* alert is recorded and evaluate() goes on from where it was
Resume(c) ==
  /\ c \in inflight
  /\ LET r == Run(c.at, AlerterState, c.h, c.lg, clock, args.telegram)
     IN Proceed(c.h, c.lg, r, inflight \ {c}) /\ Recorded(NoHealth, r)

ResumeAny == \E c \in inflight : Resume(c)

\* time passes
Tick ==
  /\ clock < START_MS + MaxTicks * TICK_MS
  /\ clock' = clock + TICK_MS
  /\ raised' = {}
  /\ suppressed' = {}
  /\ probe' = NoHealth
  /\ earlier' = [r \in Rules |-> 0]
  /\ UNCHANGED <<connVars, observe, args, tableVars, reconnVars, fired, timedOut, last,
                 disconnected, emitted, received, returned, carried, request, written,
                 gatewayState, gatewayDownSince, consecutiveFailures,
                 consecutiveGatewayUnreachable, consecutiveTailscaleDown,
                 lastTailscaleState, lastFired, latencyBuffer, inflight, failRun,
                 lastGateway, tsRun, lastRaised, deleted>>

\* The alerter as server.js drives it, with or without Telegram configured.
\* Each specification gives the probes the results its properties are about.
\* With Telegram configured an evaluate() that is resumed at once behaves as
\* one without Telegram, so the third set keeps the configured case only.
OutageArgs ==
  [fn : {"evaluate"}, telegram : BOOLEAN,
   health : {{Down, Up("true", "null", 100), Up("true", "true", 100)}},
   logs : {{LogResult(FALSE, 0, TRUE)}}]

TailscaleArgs ==
  [fn : {"evaluate"}, telegram : BOOLEAN,
   health : {{Down} \cup {Up("true", ts, 100) : ts \in {"true", "false", "null"}}},
   logs : {{LogResult(FALSE, 0, TRUE)}}]

CooldownArgs ==
  [fn : {"evaluate"}, telegram : {TRUE},
   health : {{Down, Up("true", "null", 100)}},
   logs : {{LogResult(FALSE, 0, TRUE), LogResult(FALSE, HIGH_ERROR_THRESHOLD, TRUE)}}]

InitOutage ==
  observe = {"alerts", "outage"} /\ InitFields /\ urlValid /\ args \in OutageArgs

InitTailscale ==
  observe = {"alerts", "tailscale"} /\ InitFields /\ urlValid /\ args \in TailscaleArgs

InitCooldown ==
  observe = {"alerts", "cooldown"} /\ InitFields /\ urlValid /\ args \in CooldownArgs

NextAlerts ==
  \/ \E h \in HealthResults : EvaluateHealth(h)
  \/ \E lg \in LogResults : EvaluateLogs(lg)
  \/ ResumeAny
  \/ Tick

SpecOutage == InitOutage /\ [][NextAlerts]_vars

SpecTailscale == InitTailscale /\ [][NextAlerts]_vars

SpecCooldown == InitCooldown /\ [][NextAlerts]_vars

\* ------------------------------------------------------------ specification
Next ==
  \/ Connect
  \/ Disconnect
  \/ Call
  \/ Status
  \/ ReconnectFire
  \/ \E id \in Ids : CallTimeout(id)
  \/ \E id \in Ids : ConnectTimeout(id)
  \/ \E s \in Slots : HandshakeTimeout(s)
  \/ \E s \in Slots : OnOpen(s)
  \/ \E s \in Slots : \E msg \in Frames : OnMessage(s, msg)
  \/ \E s \in Slots : OnClose(s)

Spec == Init /\ [][Next]_vars

\* Timers that are armed fire, and a socket that is closing delivers its
\* close event: the event loop runs every due callback.
Fairness ==
  /\ \A id \in Ids : WF_vars(CallTimeout(id)) /\ WF_vars(ConnectTimeout(id))
  /\ \A s \in Slots : WF_vars(HandshakeTimeout(s))
  /\ \A s \in Slots : WF_vars(sockets[s].readyState = "CLOSING" /\ OnClose(s))

FairSpec == InitQuiet /\ [][Next]_vars /\ Fairness

\* The reconnect timeout fires once armed, and a socket that is closing
\* delivers its close event.
ReconnectFairness ==
  /\ WF_vars(ReconnectFire)
  /\ \A s \in Slots : WF_vars(sockets[s].readyState = "CLOSING" /\ OnClose(s))

FairApi == InitApi /\ [][Next]_vars /\ ReconnectFairness

SpecTimeout == InitTimeout /\ [][Next]_vars

SpecBackoff == InitBackoff /\ [][Next]_vars

SpecApi == InitApi /\ [][Next]_vars

SpecEvents == InitEvents /\ [][Next]_vars

SpecStatus == InitStatus /\ [][Next]_vars

SpecFrames == InitFrames /\ [][Next]_vars

SpecSend == InitSend /\ [][Next]_vars

SpecWire == InitWire /\ [][Next]_vars

SpecAuth == InitAuth /\ [][NextAuth]_vars

\* ================================================================== claims
\* the READY state of the connection, as the flags of the client give it
Ready == connected /\ handshakeComplete

\* C1: every call() made while READY has its promise settled at most once
\* in any interleaving of responses, timeouts and close events, exactly once
\* as soon as its entry has left the table, and it is resolved only by a
\* response frame that carries the call's own id.
C1_SettledOnceByOwnId ==
  /\ [](\A id \in Ids : kindOf[id] = "call" =>
          /\ fired[id] <= 1
          /\ (fired[id] = 1 <=> id \notin pending))
  /\ [][\A id \in Ids :
          (kindOf[id] = "call" /\ fired'[id] # fired[id] /\ last'.how = "resolved")
             => (last'.op = "res" /\ last'.id = id)]_vars

\* a response resolves a call while an older call is still pending
C1_Witness ==
  /\ last.op = "res" /\ last.how = "resolved"
  /\ last.id # 0 /\ kindOf[last.id] = "call" /\ fired[last.id] = 1
  /\ \E o \in pending : o < last.id /\ kindOf[o] = "call" /\ fired[o] = 0

C3_NotReadyRejects ==
  [][(last'.op = "call" /\ ~Ready) =>
       /\ last'.how = "notReady"
       /\ last'.id = 0
       /\ pending' = pending
       /\ timers' = timers
       /\ nextId' = nextId
       /\ fired' = fired]_vars

\* call() was rejected on an open socket whose handshake is not complete
C3_Witness ==
  /\ last.op = "call" /\ last.how = "notReady"
  /\ connected /\ ~handshakeComplete
  /\ ws # 0 /\ sockets[ws].readyState = "OPEN"

\* C4: a call whose timer fired was rejected with the timeout error, its id
\* is not in the pending table from then on, and a response for that id
\* arriving later finds no entry and settles nothing.
C4_TimeoutRemoves ==
  /\ \A id \in timedOut : id \notin pending /\ id \notin timers /\ fired[id] = 1
  /\ last.op = "callTimeout" => (last.how = "timeout" /\ last.id \in timedOut)
  /\ (last.op = "res" /\ last.id \in timedOut) => last.how = "none"

\* a response arrived for a call that had timed out
C4_Witness == last.op = "res" /\ last.id \in timedOut

\* C5: the close handler rejects every entry that is in the pending table
\* with the connection-closed error, cancels their timers and leaves the
\* table empty; no timer of a removed entry is left to fire later.
C5_CloseRejectsAll ==
  /\ [](timers \subseteq pending)
  /\ [][last'.op = "close" =>
          /\ pending' = {}
          /\ timers' = {}
          /\ \A id \in Ids : fired'[id] = fired[id] + (IF id \in pending THEN 1 ELSE 0)
          /\ last'.how = (IF pending # {} THEN "closed" ELSE "none")]_vars

\* a close event has rejected two pending entries, one of them a call
C5_Witness ==
  /\ last.op = "close" /\ last.how = "closed"
  /\ pending = {}
  /\ \A id \in Ids : fired[id] = 1
  /\ \E id \in Ids : kindOf[id] = "call"

\* C6: in a run of consecutive connection attempts none of which reaches
\* READY, whether an attempt fails before or after its socket opens, the
\* k-th reconnect is armed with min(1000 * 2^(k-1), 30000) ms: the delay of
\* every reconnect armed is the base delay doubled once per reconnect armed
\* since the run began, capped at the maximum.
C6_BackoffSequence ==
  [][(last'.delay # 0 /\ expectedDelay # 0) => last'.delay = expectedDelay]_vars

\* C7: whenever the connection is READY the reconnect delay is at its base
\* value, and the reconnect armed when a READY connection is lost uses the
\* base delay.
C7_ReadyResetsDelay ==
  /\ [](Ready => reconnectDelay = RECONNECT_BASE_MS)
  /\ [][(Ready /\ last'.delay # 0)
          => last'.delay = RECONNECT_BASE_MS]_vars

\* a READY connection that had pending entries was lost and its reconnect
\* was armed with the base delay, the next delay being the doubled base
C7_Witness ==
  /\ last.op = "close" /\ last.how = "closed"
  /\ last.delay = RECONNECT_BASE_MS
  /\ reconnectDelay = 2 * RECONNECT_BASE_MS
  /\ \E id \in Ids : kindOf[id] = "call"

\* C8: at most one reconnect timeout is armed, it is the one the field
\* holds, and a _scheduleReconnect() entered while it is pending arms none
\* and leaves the reconnect delay as it is.
C8_OneReconnectTimer ==
  /\ [](reconnectTimers <= 1 /\ (reconnectTimer <=> reconnectTimers = 1))
  /\ [][(reconnectTimer /\ (last'.op = "close" \/ (last'.op = "connect" /\ ~urlValid)))
          => /\ reconnectDelay' = reconnectDelay
             /\ reconnectTimers' = reconnectTimers
             /\ reconnectTimer'
             /\ last'.delay = 0]_vars

\* a close event was handled while a reconnect timeout was pending
C8_Witness ==
  /\ last.op = "close" /\ last.delay = 0
  /\ reconnectTimer /\ reconnectTimers = 1

\* C9: from a disconnect() until the next connect() the client has no
\* socket, is not connected and has no reconnect timeout armed.
C9_DisconnectStaysClosed ==
  disconnected => (ws = 0 /\ ~connected /\ ~reconnectTimer /\ reconnectTimers = 0)

\* C10: connect() while the current socket is connecting or open keeps that
\* socket, the connection flags and the pending table, and opens no socket.
C10_ConnectIdempotent ==
  [][(last'.op = "connect" /\ ws # 0 /\ sockets[ws].readyState \in {"CONNECTING", "OPEN"})
       => /\ ws' = ws
          /\ sockets' = sockets
          /\ connected' = connected
          /\ handshakeComplete' = handshakeComplete
          /\ pending' = pending]_vars

\* C11: while the handshake is not complete, a response frame that has
\* ok:false or a payload.type other than "hello-ok" closes the socket, leaves
\* the handshake incomplete and leaves at most one reconnect timeout armed.
C11_HandshakeFailureCloses ==
  [][(received'.type = "res" /\ ~handshakeComplete
        /\ (~received'.ok \/ received'.ptype # "hello-ok"))
       => /\ ws # 0
          /\ sockets'[ws].readyState = "CLOSING"
          /\ ~handshakeComplete'
          /\ reconnectTimers' <= 1]_vars

\* C12: connectedAt and serverInfo are non-null only while the connection is
\* READY: a step that leaves READY, the one of disconnect() included, clears
\* both.
C12_InfoOnlyWhileReady == (connectedAt \/ serverInfo) => Ready

\* C13: "connected" is emitted exactly by the steps that enter READY, a step
\* that leaves READY (close event or disconnect()) emits "disconnected", and
\* "disconnected" is emitted only by a step that leaves READY.
C13_NotificationsFollowReady ==
  [][/\ (emitted' = "connected") <=> (~Ready /\ Ready')
     /\ (Ready /\ ~Ready') => emitted' = "disconnected"
     /\ emitted' = "disconnected" => (Ready /\ ~Ready')]_vars

\* C14: status() changes no state of the client, the connected field of the
\* snapshot it returns is true exactly when the connection is READY, and its
\* pending-call count is the number of entries in the pending table.
C14_StatusIsSnapshot ==
  /\ [](returned.fn = "status" =>
          /\ returned.value.connected = Ready
          /\ returned.value.pendingCalls = Cardinality(pending))
  /\ [][returned'.fn = "status" =>
          UNCHANGED <<connVars, tableVars, reconnectDelay, reconnectTimer,
                      reconnectTimers, fired>>]_vars

\* status() was called on a READY connection with a connect request and a
\* call in the pending table
C14_Witness ==
  /\ returned.fn = "status"
  /\ returned.value.connected
  /\ returned.value.pendingCalls = 2
  /\ \E id \in pending : kindOf[id] = "connect"

\* C15: a response frame with ok:false for the id of a pending call rejects
\* that call with the RPC error that carries the code and the details of the
\* frame, removes the entry, cancels its timer and leaves the connection
\* state as it was.
C15_ErrorResponseRejects ==
  [][(/\ received'.type = "res"
      /\ ~received'.ok
      /\ received'.id \in pending
      /\ kindOf[received'.id] = "call")
       => /\ last'.how = "rejected"
          /\ received'.id \notin pending'
          /\ received'.id \notin timers'
          /\ fired'[received'.id] = fired[received'.id] + 1
          /\ UNCHANGED connVars]_vars

\* C16: buildDeviceAuthPayload returns version, deviceId, clientId,
\* clientMode, role, the scopes joined by "," in the given order, signedAtMs
\* and token, joined by "|"; with a nonce present (a non-empty string) the
\* version is "v2" and the nonce is the last field, otherwise the version is
\* "v1" and there is no nonce field; the two payloads the claim spells out
\* are returned for their arguments.
C16_PayloadFormat ==
  returned.fn = "buildDeviceAuthPayload" =>
    LET present == args.nonce \notin {<<>>, <<"">>}
        csv == IF Len(args.scopes) = 0 THEN ""
               ELSE IF Len(args.scopes) = 1 THEN args.scopes[1]
               ELSE IF Len(args.scopes) = 2 THEN args.scopes[1] \o "," \o args.scopes[2]
               ELSE args.scopes[1] \o "," \o args.scopes[2] \o "," \o args.scopes[3]
        ms == CASE args.signedAtMs = 0 -> "0"
                [] args.signedAtMs = 7 -> "7"
                [] args.signedAtMs = 1000 -> "1000"
        fields == args.deviceId \o "|" \o args.clientId \o "|" \o args.clientMode
                    \o "|" \o args.role \o "|" \o csv \o "|" \o ms \o "|"
                    \o (IF args.token = <<>> THEN "" ELSE args.token[1])
        example == /\ args.deviceId = "d1"
                   /\ args.scopes = <<"a", "b">>
                   /\ args.signedAtMs = 1000
                   /\ args.token = <<"tok">>
    IN /\ present => returned.value = "v2|" \o fields \o "|" \o args.nonce[1]
       /\ ~present => returned.value = "v1|" \o fields
       /\ (example /\ args.nonce = <<>>) =>
            returned.value = "v1|d1|gateway-client|backend|operator|a,b|1000|tok"
       /\ (example /\ args.nonce = <<"n1">>) =>
            returned.value = "v2|d1|gateway-client|backend|operator|a,b|1000|tok|n1"

\* the v2 payload of the claim was built
C16_Witness ==
  /\ returned.fn = "buildDeviceAuthPayload"
  /\ args.nonce = <<"n1">>
  /\ returned.value = "v2|d1|gateway-client|backend|operator|a,b|1000|tok|n1"

\* C17: the connect request carries the device token, a device block, role
\* and scopes exactly when device id, device token and device private key
\* are all configured; otherwise it carries the bearer token (no token when
\* none is configured) and no device, role or scopes field.
C17_AuthMode ==
  returned.fn = "_sendConnectRequest" =>
    LET p == returned.value
        env == args.env
        configured == "" \notin {env.GATEWAY_DEVICE_ID, env.GATEWAY_DEVICE_TOKEN,
                                 env.GATEWAY_DEVICE_PRIVKEY}
    IN IF configured
       THEN /\ p.auth.token = <<env.GATEWAY_DEVICE_TOKEN>>
            /\ Len(p.device) = 1
            /\ p.device[1].id = env.GATEWAY_DEVICE_ID
            /\ p.device[1].signature.key = env.GATEWAY_DEVICE_PRIVKEY
            /\ p.role = <<"operator">>
            /\ Len(p.scopes) = 1
       ELSE /\ p.auth.token = (IF env.GATEWAY_TOKEN = "" THEN <<>>
                               ELSE <<env.GATEWAY_TOKEN>>)
            /\ p.device = <<>>
            /\ p.role = <<>>
            /\ p.scopes = <<>>

\* a request was built with device id and device token configured but no
\* private key: it is a token-auth request
C17_Witness ==
  /\ returned.fn = "_sendConnectRequest"
  /\ args.env.GATEWAY_DEVICE_ID # ""
  /\ args.env.GATEWAY_DEVICE_TOKEN # ""
  /\ args.env.GATEWAY_DEVICE_PRIVKEY = ""
  /\ returned.value.auth.token = <<"tok">>
  /\ returned.value.device = <<>>

\* C18: the reconnect delay is always one of 1000, 2000, 4000, 8000, 16000
\* and 30000 ms, never below the base and never above the cap.
C18_DelayInRange ==
  /\ reconnectDelay \in {1000, 2000, 4000, 8000, 16000, 30000}
  /\ RECONNECT_BASE_MS <= reconnectDelay
  /\ reconnectDelay <= RECONNECT_MAX_MS

\* a reconnect was armed with 16000 ms and the doubled delay was capped
C18_Witness ==
  /\ last.delay = 16000
  /\ reconnectDelay = RECONNECT_MAX_MS
  /\ reconnectTimer

\* C19: the connection enters READY only by a successful response frame
\* whose id is that of a connect request that is still in the pending table.
C19_ReadyOnlyByHandshakeResponse ==
  [][(~Ready /\ Ready') =>
       /\ received'.type = "res"
       /\ received'.ok
       /\ received'.id \in pending
       /\ kindOf[received'.id] = "connect"]_vars

\* C20: when the handshake timeout of a socket fires while the client is not
\* READY, that socket is closing afterwards (force-closed, its close event
\* then schedules the reconnect); a hello-ok accepted on a socket cancels the
\* handshake timeout of that socket.
C20_HandshakeTimeoutAborts ==
  [][\A s \in Slots :
       /\ (~Ready /\ last'.op = "handshakeTimeout"
             /\ sockets[s].hsTimer /\ ~sockets'[s].hsTimer)
            => sockets'[s].readyState = "CLOSING"
       /\ (received'.type = "res" /\ received'.ptype = "hello-ok"
             /\ ~handshakeComplete /\ sockets[s].readyState = "OPEN")
            => ~sockets'[s].hsTimer]_vars

\* C21: the expiry of the timer of one call() removes that entry, rejects it
\* with the timeout error and does nothing else: every other entry and its
\* timer, the sockets, the connection flags, connectedAt, serverInfo and the
\* reconnect delay and timer are as before.
C21_TimeoutIsLocal ==
  [][last'.op = "callTimeout" =>
       /\ last'.how = "timeout"
       /\ last'.id \in pending
       /\ pending' = pending \ {last'.id}
       /\ timers' = timers \ {last'.id}
       /\ \A i \in Ids : fired'[i] = fired[i] + (IF i = last'.id THEN 1 ELSE 0)
       /\ UNCHANGED <<sockets, ws, connected, handshakeComplete, connectedAt, serverInfo,
                      reconnectDelay, reconnectTimer, reconnectTimers>>]_vars

\* the timer of one call has fired while another call is pending with its
\* timer armed
C21_Witness ==
  /\ last.op = "callTimeout" /\ fired[last.id] = 1
  /\ \E o \in pending :
       o # last.id /\ kindOf[o] = "call" /\ o \in timers /\ fired[o] = 0

\* C22: an inbound message that is not valid JSON is dropped: the sockets,
\* the connection flags, connectedAt and serverInfo, the pending table with
\* its timers and continuations, the id counter and the reconnect delay and
\* timer are unchanged, and no notification is emitted.
C22_InvalidJsonDropped ==
  [][received'.type = "bad" =>
       /\ emitted' = "none"
       /\ UNCHANGED <<sockets, ws, connected, handshakeComplete, connectedAt, serverInfo,
                      pending, timers, kindOf, nextId, fired,
                      reconnectDelay, reconnectTimer, reconnectTimers>>]_vars

\* invalid data arrived on a READY connection that has a pending entry
C22_Witness ==
  /\ received.type = "bad"
  /\ Ready /\ ws # 0 /\ sockets[ws].readyState = "OPEN"
  /\ pending # {} /\ timers = pending

\* C23: a response frame whose id is not in the pending table is a no-op
\* whatever the state of the connection: no continuation is invoked, the
\* pending table and its timers are unchanged, and so are the sockets, the
\* connection flags, connectedAt and serverInfo.
C23_UnknownIdIsNoOp ==
  [][(last'.op = "res" /\ last'.id \notin pending) =>
       /\ last'.how = "none"
       /\ UNCHANGED <<pending, timers, fired>>
       /\ UNCHANGED <<sockets, ws, connected, handshakeComplete, connectedAt,
                      serverInfo>>]_vars

\* C24: an inbound frame of type "event" that is not a connect.challenge
\* makes the handler emit one "event" notification whose argument is that
\* frame, and changes neither the pending table nor the state of the
\* connection; a connect.challenge and a response frame emit no "event"
\* notification, and no other handler emits one.
C24_EventsForwarded ==
  [][/\ received'.type = "event" =>
          /\ emitted' = "event"
          /\ carried' = received'
          /\ UNCHANGED <<pending, timers, kindOf, nextId, fired>>
          /\ UNCHANGED <<sockets, ws, connected, handshakeComplete, connectedAt,
                         serverInfo>>
     /\ received'.type \in {"challenge", "res"} => emitted' # "event"
     /\ emitted' = "event" => received'.type = "event"]_vars

\* a server event was forwarded while the client was READY with a pending
\* entry
C24_Witness ==
  /\ emitted = "event"
  /\ received.type = "event" /\ received.ptype = "other"
  /\ carried = received
  /\ Ready /\ pending # {}

\* C25: a request frame is written only by the handler that passes it to
\* _send (the one that draws its id) and only while the current socket is
\* open; a frame passed to _send while the socket is not open is dropped and
\* is not written by any later step, and the call it belonged to is settled
\* only by its timeout or by the close handler.
C25_WrittenOnlyWhenOpen ==
  [][/\ written' # written =>
          /\ ws # 0 /\ sockets[ws].readyState = "OPEN"
          /\ nextId' = nextId + 1
          /\ written' = written \cup {nextId}
     /\ (nextId' # nextId /\ ~(ws # 0 /\ sockets[ws].readyState = "OPEN")) =>
          written' = written
     /\ \A id \in Ids :
          /\ (kindOf[id] # "none" /\ id \notin written) => id \notin written'
          /\ (kindOf[id] = "call" /\ id \notin written /\ fired'[id] # fired[id])
               => (CallTimeout(id) \/ \E s \in Slots : OnClose(s))]_vars

\* a call accepted while the current socket was still connecting was
\* dropped and has been rejected by its timeout: no close event has reset
\* the flags since
C25_Witness ==
  /\ \E id \in Ids :
       kindOf[id] = "call" /\ id \notin written /\ fired[id] = 1 /\ id \notin pending
  /\ Ready /\ ws # 0 /\ sockets[ws].readyState = "CONNECTING"

\* C26: a connect request is passed to _send only by the handler of a
\* connect.challenge delivered by the current socket, which is open, and
\* each challenge gives one request with a fresh id; with the device
\* credentials configured the nonce of the device block and the nonce signed
\* in the payload are the nonce of that challenge, and both are absent when
\* the challenge carried none.
C26_ConnectOnChallenge ==
  [][LET Challenges == {m \in Frames : m.type = "challenge"}
         signed == "v1|d1|gateway-client|backend|operator|"
                     \o "operator.read,operator.write,operator.admin|1000|dtok"
         signedWith(n) == "v2|d1|gateway-client|backend|operator|"
                     \o "operator.read,operator.write,operator.admin|1000|dtok|" \o n
     IN
     /\ request'.method = "connect" =>
          \E s \in Slots : \E m \in Challenges : s = ws /\ OnMessage(s, m)
     /\ \A s \in Slots : \A m \in Challenges :
          OnMessage(s, m) =>
            /\ s = ws /\ sockets[s].readyState = "OPEN"
            /\ request'.type = "req" /\ request'.method = "connect"
            /\ request'.id = nextId /\ nextId' = nextId + 1
            /\ pending' = pending \cup {nextId}
            /\ LET p == request'.params[1]
               IN IF args.env.GATEWAY_DEVICE_PRIVKEY = "priv"
                  THEN /\ Len(p.device) = 1
                       /\ p.device[1].nonce = (IF m.nonce THEN <<"n1">> ELSE <<>>)
                       /\ p.device[1].signature.text =
                            (IF m.nonce THEN signedWith("n1") ELSE signed)
                  ELSE p.device = <<>>]_vars

\* a challenge with a nonce was answered in signed-device mode after an
\* earlier connect request of the same client
C26_Witness ==
  /\ request.method = "connect" /\ request.id = 2
  /\ kindOf[1] = "connect"
  /\ request.params[1].device # <<>>
  /\ request.params[1].device[1].nonce = <<"n1">>
  /\ request.params[1].device[1].signature.text =
       "v2|d1|gateway-client|backend|operator|operator.read,operator.write,operator.admin|1000|dtok|n1"

\* C27: while disconnect() has not been called since the last connect(), a
\* connection that failed or was lost is followed by a new attempt: whenever
\* the current socket is closed, or an attempt has left no socket because
\* the constructor threw, a reconnect timeout is armed; and with the
\* reconnect timeout firing once armed, a socket that is closing or closed
\* is followed by a new socket (when the constructor accepts the url).
C27_FailureLeadsToReconnect ==
  /\ []((~disconnected /\ ws # 0 /\ sockets[ws].readyState = "CLOSED") => reconnectTimer)
  /\ [][((Connect \/ ReconnectFire) /\ ~urlValid) => (ws' = 0 /\ reconnectTimer')]_vars
  /\ []((~disconnected /\ ws = 0 /\ ~reconnectTimer) =>
          (\A s \in Slots : sockets[s].readyState = "FREE"))
  /\ ((urlValid /\ ~disconnected /\ ws # 0
         /\ sockets[ws].readyState \in {"CLOSING", "CLOSED"})
        ~> (disconnected \/ (ws # 0 /\ sockets[ws].readyState = "CONNECTING")))

\* a connection was lost: the current socket is closed, the flags are
\* reset and the reconnect timeout is armed with the base delay
C27_Witness ==
  /\ ~disconnected /\ ws # 0 /\ sockets[ws].readyState = "CLOSED"
  /\ reconnectTimer /\ reconnectTimers = 1
  /\ reconnectDelay = 2 * RECONNECT_BASE_MS
  /\ ~connected /\ ~handshakeComplete

\* C28: a READY connection leaves READY only by a close event or by
\* disconnect(), and neither the handshake timeout of an attempt nor the
\* timeout of a connect request closes the open socket of a READY
\* connection.
C28_TimersSpareReady ==
  [][/\ (Ready /\ ~Ready') => last'.op \in {"close", "disconnect"}
     /\ (/\ Ready
         /\ ws # 0 /\ sockets[ws].readyState = "OPEN" /\ ~sockets[ws].hsTimer
         /\ last'.op \in {"handshakeTimeout", "connectTimeout"})
          => sockets'[ws].readyState = "OPEN"]_vars

\* C29: whenever isConnected() is true the current socket is open and is
\* the socket that received the hello-ok (its handshake timeout is
\* cancelled), and the request of a call() that was accepted has been
\* written to the socket.
C29_ReadyMeansOpenSocket ==
  /\ Ready => (ws # 0 /\ sockets[ws].readyState = "OPEN" /\ ~sockets[ws].hsTimer)
  /\ (last.op = "call" /\ last.how # "notReady") => last.how = "sent"

\* C30: the close event and the handshake timeout of a socket that is no
\* longer the current one leave the current connection alone: the connection
\* flags, the pending table and its continuations and the current socket are
\* unchanged, and while there is a current socket no reconnect timeout is
\* armed.
C30_SupersededSocketIsInert ==
  [][\A s \in Slots :
       (s # ws /\ (OnClose(s) \/ HandshakeTimeout(s))) =>
         /\ connected' = connected
         /\ handshakeComplete' = handshakeComplete
         /\ pending' = pending
         /\ fired' = fired
         /\ ws # 0 =>
              /\ sockets'[ws] = sockets[ws]
              /\ reconnectTimers' = reconnectTimers]_vars

\* C31: over the health probes given to evaluate(), gateway_down and
\* gateway_recovered alerts alternate, gateway_down first: gateway_down is
\* fired at the probe that is the third failed probe in a row and only
\* there, whatever the cooldown, and gateway_recovered is fired at the first
\* successful probe after a gateway_down alert and only there.
C31_DownRecoveredAlternate ==
  [][/\ "gateway_down" \in raised' =>
          /\ lastGateway # "gateway_down"
          /\ probe'.present /\ ~probe'.up /\ failRun' = 3
     /\ "gateway_recovered" \in raised' =>
          /\ lastGateway = "gateway_down"
          /\ probe'.present /\ probe'.up
     /\ (probe'.present /\ ~probe'.up /\ failRun' = 3) => "gateway_down" \in raised'
     /\ (probe'.present /\ probe'.up /\ lastGateway = "gateway_down")
          => "gateway_recovered" \in raised']_vars

\* C32: when Tailscale was reported running and is then reported not running
\* on 3 successful health probes in a row (tsRun counts them: 0 at a probe
\* that reports it running, one more at each following successful probe that
\* reports it not running), the third of these probes raises tailscale_down,
\* unless the rule is in cooldown at that probe.
C32_TailscaleDownRaised ==
  [][(/\ probe'.present /\ probe'.up
      /\ tsRun' = CONSECUTIVE_FAILURES
      /\ ~(lastFired["tailscale_down"] # 0
            /\ clock - lastFired["tailscale_down"] < 3600000))
       => "tailscale_down" \in raised']_vars

====
